---- MODULE Spec2Model ----
(***************************************************************************)
(* A model of elasticsearch-dsl-rs: the Term value type (construction,     *)
(* equality, ordering, omission), the match_all / constant_score /         *)
(* span_field_masking query builders with their serialization, and the     *)
(* aggregations response handler.                                          *)
(*                                                                         *)
(* Conventions.  Option<T> is a sequence of length at most one: None is    *)
(* <<>> and Some(x) is <<x>>.  A 64-bit integer is its 8 bytes, most       *)
(* significant first (two's complement for i64); a narrower integer        *)
(* literal is its 1, 2 or 4 bytes.  std::cmp::Ordering is one of the       *)
(* strings "Less", "Equal", "Greater".                                     *)
(***************************************************************************)
EXTENDS Integers, Sequences, FiniteSets, TLC

VARIABLES
    lhs,            \* a Term (left operand / receiver)
    rhs,            \* a Term (right operand)
    src,            \* how lhs was obtained: the conversion and its literal
    res,            \* outcome of the last Term operation
    q,              \* the query value under construction (owned tree)
    calls,          \* arguments of the constructor and of the last boost / name call on q
    out,            \* outcome of the last operation on q
    aggregations,   \* AggregationsHandler.aggregations : Option<&Value>
    found           \* outcome of the last AggregationsHandler::terms call

vars == <<lhs, rhs, src, res, q, calls, out, aggregations, found>>

None == <<>>
Some(x) == <<x>>

(***************************************************************************)
(* Bounds of the model.                                                    *)
(***************************************************************************)
MaxStrLen == 2      \* longest text literal
MaxTick == 2        \* timestamps are the instants 0..MaxTick
MaxDepth == 3       \* deepest query tree built
MaxBoost == 2       \* boost arguments are 1..MaxBoost

(***************************************************************************)
(* Primitive values.                                                       *)
(***************************************************************************)
Pad(n, b) == [i \in 1..n |-> b]

\* a widening that fills with zeros whatever the sign (`value as u8 as i64`)
SignExtendUnsigned(bs) == Pad(8 - Len(bs), 0) \o bs

\* `value as i64` / i64::from(value) of a signed literal: sign extension
SignExtend(bs) == Pad(8 - Len(bs), IF bs[1] >= 128 THEN 255 ELSE 0) \o bs

\* `value as u64` / u64::from(value) of an unsigned literal: zero extension
ZeroExtend(bs) == Pad(8 - Len(bs), 0) \o bs

\* i64::try_from(u64): fails above i64::MAX
I64TryFromU64(w) == IF w[1] >= 128 THEN None ELSE Some(w)

\* u64::try_from(i64): fails below zero
U64TryFromI64(w) == IF w[1] >= 128 THEN None ELSE Some(w)

\* u64::cmp: bytes compared from the most significant one
RECURSIVE SeqCmp(_, _)
SeqCmp(a, b) ==
    IF a = <<>> /\ b = <<>> THEN "Equal"
    ELSE IF a = <<>> THEN "Less"
    ELSE IF b = <<>> THEN "Greater"
    ELSE IF Head(a) < Head(b) THEN "Less"
    ELSE IF Head(a) > Head(b) THEN "Greater"
    ELSE SeqCmp(Tail(a), Tail(b))

U64Cmp(a, b) == SeqCmp(a, b)

\* i64::cmp: two's complement order is unsigned order with the sign bit flipped
FlipSign(w) == [w EXCEPT ![1] = (w[1] + 128) % 256]
I64Cmp(a, b) == SeqCmp(FlipSign(a), FlipSign(b))

\* String::cmp: lexicographic by bytes
StrCmp(a, b) == SeqCmp(a, b)

BoolCmp(a, b) == IF a = b THEN "Equal" ELSE IF b THEN "Less" ELSE "Greater"

IntCmp(a, b) == IF a < b THEN "Less" ELSE IF a > b THEN "Greater" ELSE "Equal"

(***************************************************************************)
(* Floats are the values they denote: NaN, or a sign, a class (finite or   *)
(* infinite) and, when finite, a magnitude in eighths.  f32 and f64 differ *)
(* in which magnitudes exist (FloatLits); f64::from(f32) is exact.         *)
(***************************************************************************)
NaN == [c |-> "nan", neg |-> FALSE, m |-> 0]
Fin(neg, m) == [c |-> "fin", neg |-> neg, m |-> m]
Inf(neg) == [c |-> "inf", neg |-> neg, m |-> 0]

\* f64::try_from(f32) is the infallible widening f64::from
F64TryFromF32(f) == Some([c |-> f.c, neg |-> f.neg, m |-> f.m])

IsZero(f) == f.c = "fin" /\ f.m = 0

\* IEEE 754 ==
FloatEq(a, b) ==
    /\ a.c # "nan"
    /\ b.c # "nan"
    /\ \/ IsZero(a) /\ IsZero(b)
       \/ a = b

\* IEEE 754 < on non-NaN operands
FloatLt(a, b) ==
    LET Rank(f) == IF f.c = "inf" THEN (IF f.neg THEN 0 ELSE 2) ELSE 1
        Val(f) == IF f.neg THEN 0 - f.m ELSE f.m
    IN  \/ Rank(a) < Rank(b)
        \/ Rank(a) = 1 /\ Rank(b) = 1 /\ Val(a) < Val(b)

\* f32::partial_cmp / f64::partial_cmp
FloatPartialCmp(a, b) ==
    IF a.c = "nan" \/ b.c = "nan" THEN None
    ELSE IF FloatLt(a, b) THEN Some("Less")
    ELSE IF FloatLt(b, a) THEN Some("Greater")
    ELSE Some("Equal")

\* Option::unwrap_or
UnwrapOr(o, d) == IF o = None THEN d ELSE o[1]

(***************************************************************************)
(* enum Inner and struct Term(Option<Inner>)                               *)
(***************************************************************************)
Inner(k, v) == [k |-> k, v |-> v]

\* fn try_eq over integers: L::try_from(*right).map_or(false, |r| left.eq(&r))
TryEq(left, converted) ==
    IF converted = None THEN FALSE ELSE left = converted[1]

\* fn try_eq over floats
TryEqFloat(left, converted) ==
    IF converted = None THEN FALSE ELSE FloatEq(left, converted[1])

\* the arm compared with a wrapping cast (`*o as u64`) in place of try_eq
EqUnsignedSignedCast(s, o) == s = o

\* the (UnsignedInteger, SignedInteger) arm of Inner::eq
EqUnsignedSigned(s, o) == TryEq(s, U64TryFromI64(o))

\* the arm without its conversion check: any two integers of different signedness differ
EqSignedUnsignedNever(s, o) == FALSE

\* the (SignedInteger, UnsignedInteger) arm of Inner::eq
EqSignedUnsigned(s, o) == TryEq(s, I64TryFromU64(o))

\* impl PartialEq for Inner
InnerEq(s, o) ==
    CASE s.k = "Bool" /\ o.k = "Bool" -> s.v = o.v
      [] s.k = "String" /\ o.k = "String" -> s.v = o.v
      [] s.k = "SignedInteger" /\ o.k = "SignedInteger" -> s.v = o.v
      [] s.k = "SignedInteger" /\ o.k = "UnsignedInteger" -> EqSignedUnsigned(s.v, o.v)
      [] s.k = "UnsignedInteger" /\ o.k = "SignedInteger" -> EqUnsignedSigned(s.v, o.v)
      [] s.k = "UnsignedInteger" /\ o.k = "UnsignedInteger" -> s.v = o.v
      [] s.k = "Float32" /\ o.k = "Float32" -> FloatEq(s.v, o.v)
      [] s.k = "Float32" /\ o.k = "Float64" -> TryEqFloat(o.v, F64TryFromF32(s.v))
      [] s.k = "Float64" /\ o.k = "Float32" -> TryEqFloat(s.v, F64TryFromF32(o.v))
      [] s.k = "Float64" /\ o.k = "Float64" -> FloatEq(s.v, o.v)
      [] s.k = "DateTime" /\ o.k = "DateTime" -> s.v = o.v
      [] OTHER -> FALSE

\* the `_ => Some(Ordering::Less)` arm of Inner::partial_cmp
CrossVariantPartialCmp(s, o) == Some("Less")

\* impl PartialOrd for Inner
InnerPartialCmp(s, o) ==
    CASE s.k = "Bool" /\ o.k = "Bool" -> Some(BoolCmp(s.v, o.v))
      [] s.k = "String" /\ o.k = "String" -> Some(StrCmp(s.v, o.v))
      [] s.k = "SignedInteger" /\ o.k = "SignedInteger" -> Some(I64Cmp(s.v, o.v))
      [] s.k = "UnsignedInteger" /\ o.k = "UnsignedInteger" -> Some(U64Cmp(s.v, o.v))
      [] s.k = "Float32" /\ o.k = "Float32" -> FloatPartialCmp(s.v, o.v)
      [] s.k = "Float64" /\ o.k = "Float64" -> FloatPartialCmp(s.v, o.v)
      [] s.k = "DateTime" /\ o.k = "DateTime" -> Some(IntCmp(s.v, o.v))
      [] OTHER -> CrossVariantPartialCmp(s, o)

\* a cross-variant arm that orders by the variant's position in the enum
VariantRank(k) ==
    CASE k = "Bool" -> 0 [] k = "String" -> 1 [] k = "SignedInteger" -> 2
      [] k = "UnsignedInteger" -> 3 [] k = "Float32" -> 4 [] k = "Float64" -> 5
      [] OTHER -> 6
CrossVariantCmpByRank(s, o) == IntCmp(VariantRank(s.k), VariantRank(o.k))

\* the `_ => Ordering::Less` arm of Inner::cmp
CrossVariantCmp(s, o) == "Less"

\* impl Ord for Inner
InnerCmp(s, o) ==
    CASE s.k = "Bool" /\ o.k = "Bool" -> BoolCmp(s.v, o.v)
      [] s.k = "String" /\ o.k = "String" -> StrCmp(s.v, o.v)
      [] s.k = "SignedInteger" /\ o.k = "SignedInteger" -> I64Cmp(s.v, o.v)
      [] s.k = "UnsignedInteger" /\ o.k = "UnsignedInteger" -> U64Cmp(s.v, o.v)
      [] s.k = "Float32" /\ o.k = "Float32" -> UnwrapOr(FloatPartialCmp(s.v, o.v), "Less")
      [] s.k = "Float64" /\ o.k = "Float64" -> UnwrapOr(FloatPartialCmp(s.v, o.v), "Less")
      [] s.k = "DateTime" /\ o.k = "DateTime" -> IntCmp(s.v, o.v)
      [] OTHER -> CrossVariantCmp(s, o)

\* #[derive(PartialEq)] on Term(Option<Inner>): Option's equality over Inner::eq
TermEq(a, b) ==
    IF a = None \/ b = None THEN a = None /\ b = None ELSE InnerEq(a[1], b[1])

\* #[derive(Ord)] on Term(Option<Inner>): None < Some(_), Some by Inner::cmp
TermCmp(a, b) ==
    IF a = None /\ b = None THEN "Equal"
    ELSE IF a = None THEN "Less"
    ELSE IF b = None THEN "Greater"
    ELSE InnerCmp(a[1], b[1])

\* #[derive(PartialOrd)] on Term(Option<Inner>)
TermPartialCmp(a, b) ==
    IF a = None /\ b = None THEN Some("Equal")
    ELSE IF a = None THEN Some("Less")
    ELSE IF b = None THEN Some("Greater")
    ELSE InnerPartialCmp(a[1], b[1])

\* #[derive(Default)] on Term
TermDefault == None

(***************************************************************************)
(* Literals the conversions are applied to.                                *)
(***************************************************************************)
LitTypes ==
    {"bool", "String", "&str", "i8", "i16", "i32", "i64",
     "u8", "u16", "u32", "u64", "f32", "f64", "DateTime"}

Alphabet == {1, 2}

RECURSIVE TextsOfLen(_)
TextsOfLen(n) ==
    IF n = 0 THEN {<<>>}
    ELSE {<<c>> \o t : c \in Alphabet, t \in TextsOfLen(n - 1)}

Texts == UNION {TextsOfLen(n) : n \in 0..MaxStrLen}

Lits(ty) ==
    CASE ty = "bool" -> BOOLEAN
      [] ty \in {"String", "&str"} -> Texts
      [] ty = "i8" -> {<<0>>, <<16>>, <<127>>, <<128>>, <<255>>}
      [] ty = "i16" -> {<<0, 16>>, <<128, 0>>, <<255, 255>>}
      [] ty = "i32" -> {<<0, 0, 0, 16>>, <<127, 255, 255, 255>>, <<255, 255, 255, 240>>}
      [] ty = "i64" -> {Pad(8, 0), Pad(7, 0) \o <<16>>, Pad(8, 255), Pad(7, 255) \o <<240>>,
                        <<127>> \o Pad(7, 255), <<128>> \o Pad(7, 0)}
      [] ty = "u8" -> {<<0>>, <<16>>, <<255>>}
      [] ty = "u16" -> {<<0, 16>>, <<255, 255>>}
      [] ty = "u32" -> {<<0, 0, 0, 16>>, <<255, 255, 255, 240>>}
      [] ty = "u64" -> {Pad(8, 0), Pad(7, 0) \o <<16>>, Pad(8, 255), Pad(7, 255) \o <<240>>,
                        <<127>> \o Pad(7, 255), <<128>> \o Pad(7, 0)}
      [] ty = "f32" -> {NaN, Fin(FALSE, 0), Fin(TRUE, 0), Fin(FALSE, 8), Fin(TRUE, 8), Inf(FALSE)}
      [] ty = "f64" -> {NaN, Fin(FALSE, 0), Fin(TRUE, 0), Fin(FALSE, 8), Fin(FALSE, 9),
                        Inf(FALSE), Inf(TRUE)}
      [] OTHER -> 0..MaxTick

\* the Inner variant a literal type converts to, and the widening applied on the way
VariantOf(ty) ==
    CASE ty = "bool" -> "Bool"
      [] ty \in {"String", "&str"} -> "String"
      [] ty \in {"i8", "i16", "i32", "i64"} -> "SignedInteger"
      [] ty \in {"u8", "u16", "u32", "u64"} -> "UnsignedInteger"
      [] ty = "f32" -> "Float32"
      [] ty = "f64" -> "Float64"
      [] OTHER -> "DateTime"

Widen(ty, value) ==
    CASE ty \in {"i8", "i16", "i32"} -> SignExtend(value)
      [] ty \in {"u8", "u16", "u32"} -> ZeroExtend(value)
      [] OTHER -> value

\* impl From<T> for Term, T a literal type
TermFrom(ty, value) == Some(Inner(VariantOf(ty), Widen(ty, value)))

\* impl From<Option<T>> for Term: value.map(widen).map(Inner::Variant)
TermFromOption(ty, value) ==
    IF value = None THEN None ELSE Some(Inner(VariantOf(ty), Widen(ty, value[1])))

\* impl ShouldSkip for String
StringShouldSkip(s) == Len(s) = 0

\* a Term omitted whenever it holds text or nothing
TermShouldSkipAnyText(t) == t = None \/ t[1].k = "String"

\* impl ShouldSkip for Term
TermShouldSkip(t) ==
    IF t = None THEN TRUE
    ELSE IF t[1].k = "String" THEN StringShouldSkip(t[1].v)
    ELSE FALSE

(***************************************************************************)
(* Term operations                                                         *)
(***************************************************************************)
QueryVars == <<q, calls, out>>
AggVars == <<aggregations, found>>
TermVars == <<lhs, rhs, src, res>>

NoRes == [op |-> "none"]

Place(slot, t, s) ==
    /\ IF slot = "lhs"
       THEN lhs' = t /\ src' = s /\ UNCHANGED rhs
       ELSE rhs' = t /\ UNCHANGED <<lhs, src>>
    /\ UNCHANGED <<QueryVars, AggVars>>

Slots == {"lhs", "rhs"}

\* the parts of the state the Term operations never touch, at rest
QueryIdle == q = None /\ calls = None /\ out = None
AggIdle == aggregations = None /\ found = None
TermIdle ==
    /\ lhs = TermDefault
    /\ rhs = TermDefault
    /\ src = [how |-> "default", ty |-> "-", arg |-> None]
    /\ res = NoRes

\* Term::default()
DefaultTerm ==
    /\ \E slot \in Slots :
        Place(slot, TermDefault, [how |-> "default", ty |-> "-", arg |-> None])
    /\ res' = NoRes

\* Term::from(value)
FromLiteral ==
    /\ \E slot \in Slots, ty \in LitTypes :
        \E value \in Lits(ty) :
            Place(slot, TermFrom(ty, value), [how |-> "from", ty |-> ty, arg |-> Some(value)])
    /\ res' = NoRes

\* Term::from(Some(value)) and Term::from(None)
FromOptional ==
    /\ \E slot \in Slots, ty \in LitTypes :
        \E value \in {None} \cup {Some(v) : v \in Lits(ty)} :
            Place(slot, TermFromOption(ty, value),
                  [how |-> "from_option", ty |-> ty, arg |-> value])
    /\ res' = NoRes

\* lhs == rhs and rhs == lhs
Eq ==
    /\ res' = [op |-> "eq", lr |-> TermEq(lhs, rhs), rl |-> TermEq(rhs, lhs)]
    /\ UNCHANGED <<lhs, rhs, src, QueryVars, AggVars>>

\* lhs.cmp(&rhs) and rhs.cmp(&lhs)
Cmp ==
    /\ res' = [op |-> "cmp", lr |-> TermCmp(lhs, rhs), rl |-> TermCmp(rhs, lhs)]
    /\ UNCHANGED <<lhs, rhs, src, QueryVars, AggVars>>

\* lhs.partial_cmp(&rhs) and rhs.partial_cmp(&lhs)
PartialCmp ==
    /\ res' = [op |-> "partial_cmp", lr |-> TermPartialCmp(lhs, rhs),
               rl |-> TermPartialCmp(rhs, lhs)]
    /\ UNCHANGED <<lhs, rhs, src, QueryVars, AggVars>>

\* lhs.should_skip()
ShouldSkip ==
    /\ res' = [op |-> "should_skip", lr |-> TermShouldSkip(lhs)]
    /\ UNCHANGED <<lhs, rhs, src, QueryVars, AggVars>>

\* lhs == rhs beside lhs.cmp(&rhs), as a sorted or keyed collection evaluates them
EqAndCmp ==
    /\ res' = [op |-> "eq_cmp", eq |-> TermEq(lhs, rhs), cmp |-> TermCmp(lhs, rhs)]
    /\ UNCHANGED <<lhs, rhs, src, QueryVars, AggVars>>

InitTerm ==
    /\ lhs = TermDefault
    /\ rhs = TermDefault
    /\ src = [how |-> "default", ty |-> "-", arg |-> None]
    /\ res = NoRes
    /\ QueryIdle
    /\ AggIdle

NextTerm ==
    \/ DefaultTerm
    \/ FromLiteral
    \/ FromOptional
    \/ Eq
    \/ Cmp
    \/ PartialCmp
    \/ ShouldSkip
    \/ EqAndCmp

SpecTerm == InitTerm /\ [][NextTerm]_vars

(***************************************************************************)
(* Queries.  A query value is a record tagged with its kind; a boxed       *)
(* sub-query is the sub-query's record (exclusive ownership: a tree).      *)
(***************************************************************************)
Fields == {"test", "text"}
Names == {"", "test"}
Boosts == 1..MaxBoost
SpanKinds == {"span_term", "span_field_masking"}

\* values given to the leaf queries
LeafValues ==
    {None, TermFrom("&str", <<>>), TermFrom("&str", <<1>>), TermFrom("i32", <<0, 0, 0, 0>>)}

\* Query::match_all(): MatchAllQuery::default()
QueryMatchAll == [kind |-> "match_all", boost |-> None, _name |-> None]

\* a constructor that starts from a boost of 1 instead of an absent one
QueryConstantScoreBoosted(filter) ==
    [kind |-> "constant_score", filter |-> filter, boost |-> Some(1), _name |-> None]

\* Query::constant_score(filter)
QueryConstantScore(filter) ==
    [kind |-> "constant_score", filter |-> filter, boost |-> None, _name |-> None]

\* Query::span_field_masking(query, field)
QuerySpanFieldMasking(query, field) ==
    [kind |-> "span_field_masking", query |-> query, field |-> field]

\* Query::term(field, value)
QueryTerm(field, value) == [kind |-> "term", field |-> field, value |-> value]

\* Query::span_term(field, value)
QuerySpanTerm(field, value) == [kind |-> "span_term", field |-> field, value |-> value]

\* add_boost_and_name!(): fn boost(mut self, boost) -> Self
WithBoost(x, boost) == [x EXCEPT !.boost = Some(boost)]

\* add_boost_and_name!(): fn name(mut self, name) -> Self
WithName(x, name) == [x EXCEPT !._name = Some(name)]

RECURSIVE Depth(_)
Depth(x) ==
    CASE x.kind = "constant_score" -> 1 + Depth(x.filter)
      [] x.kind = "span_field_masking" -> 1 + Depth(x.query)
      [] OTHER -> 1

(***************************************************************************)
(* trait ShouldSkip                                                        *)
(***************************************************************************)
\* the trait's provided method
DefaultShouldSkip == FALSE

\* impl ShouldSkip for Option<T>
OptionShouldSkip(o) == o = None

\* impl ShouldSkip for MatchAllQuery {}
MatchAllShouldSkip(x) == DefaultShouldSkip

\* impl ShouldSkip for SpanFieldMaskingQuery {}
SpanFieldMaskingShouldSkip(x) == DefaultShouldSkip

\* impl ShouldSkip for TermQuery
TermQueryShouldSkip(x) == TermShouldSkip(x.value)

\* impl ShouldSkip for SpanTermQuery
SpanTermQueryShouldSkip(x) == TermShouldSkip(x.value)

RECURSIVE QueryShouldSkip(_)

\* a constant_score that left the trait's provided method in place
ConstantScoreShouldSkipDefault(x) == DefaultShouldSkip

\* impl ShouldSkip for ConstantScoreQuery: self.inner.filter.should_skip()
ConstantScoreShouldSkip(x) == QueryShouldSkip(x.filter)

\* impl ShouldSkip for Query / SpanQuery: the variant's own should_skip
QueryShouldSkip(x) ==
    CASE x.kind = "match_all" -> MatchAllShouldSkip(x)
      [] x.kind = "constant_score" -> ConstantScoreShouldSkip(x)
      [] x.kind = "span_field_masking" -> SpanFieldMaskingShouldSkip(x)
      [] x.kind = "term" -> TermQueryShouldSkip(x)
      [] OTHER -> SpanTermQueryShouldSkip(x)

(***************************************************************************)
(* Serialization.  A JSON value is a record tagged t; an object keeps its  *)
(* members as a sequence of <<key, value>> in the order they are emitted.  *)
(***************************************************************************)
JNull == [t |-> "null"]
JBool(b) == [t |-> "bool", v |-> b]
JNumber(n) == [t |-> "number", v |-> n]
JString(s) == [t |-> "string", v |-> s]
JObject(members) == [t |-> "object", members |-> members]

\* a field under #[serde(skip_serializing_if = "ShouldSkip::should_skip")]
SkippableMember(key, o, tag) ==
    IF OptionShouldSkip(o) THEN <<>> ELSE << <<key, [t |-> tag, v |-> o[1]]>> >>

\* an optional field without the attribute: None is emitted as null
PlainMember(key, o, tag) ==
    << <<key, IF o = None THEN JNull ELSE [t |-> tag, v |-> o[1]]>> >>

\* #[derive(Serialize)] on Term and #[serde(untagged)] on Inner
SerializeTerm(t) ==
    IF t = None THEN JNull
    ELSE CASE t[1].k = "Bool" -> JBool(t[1].v)
           [] t[1].k = "String" -> JString(t[1].v)
           [] OTHER -> JNumber(t[1].v)

\* #[derive(Serialize)] on match_all's Inner
SerializeMatchAllInner(x) ==
    JObject(SkippableMember("boost", x.boost, "number")
            \o SkippableMember("_name", x._name, "string"))

\* #[derive(Serialize)] on MatchAllQuery
SerializeMatchAll(x) == JObject(<< <<"match_all", SerializeMatchAllInner(x)>> >>)

RECURSIVE SerializeQuery(_)

\* constant_score's Inner with its optional fields emitted unconditionally
SerializeConstantScoreInnerPlain(x) ==
    JObject(<< <<"filter", SerializeQuery(x.filter)>> >>
            \o PlainMember("boost", x.boost, "number")
            \o PlainMember("_name", x._name, "string"))

\* #[derive(Serialize)] on constant_score's Inner
SerializeConstantScoreInner(x) ==
    JObject(<< <<"filter", SerializeQuery(x.filter)>> >>
            \o SkippableMember("boost", x.boost, "number")
            \o SkippableMember("_name", x._name, "string"))

\* #[derive(Serialize)] on ConstantScoreQuery
SerializeConstantScore(x) ==
    JObject(<< <<"constant_score", SerializeConstantScoreInner(x)>> >>)

\* #[derive(Serialize)] on span_field_masking's Inner
SerializeSpanFieldMaskingInner(x) ==
    JObject(<< <<"query", SerializeQuery(x.query)>>, <<"field", JString(x.field)>> >>)

\* #[derive(Serialize)] on SpanFieldMaskingQuery
SerializeSpanFieldMasking(x) ==
    JObject(<< <<"span_field_masking", SerializeSpanFieldMaskingInner(x)>> >>)

\* TermQuery / SpanTermQuery: { kind: { field: { "value": value } } }
SerializeLeaf(x) ==
    JObject(<< <<x.kind,
                 JObject(<< <<x.field,
                              JObject(<< <<"value", SerializeTerm(x.value)>> >>)>> >>)>> >>)

\* #[serde(untagged)] enum Query / SpanQuery: the variant's own serialization
SerializeQuery(x) ==
    CASE x.kind = "match_all" -> SerializeMatchAll(x)
      [] x.kind = "constant_score" -> SerializeConstantScore(x)
      [] x.kind = "span_field_masking" -> SerializeSpanFieldMasking(x)
      [] OTHER -> SerializeLeaf(x)

(***************************************************************************)
(* Query operations.  q is the value the caller holds; a constructor that  *)
(* takes a sub-query consumes q.  calls remembers the sub-query given to   *)
(* the constructor and the last boost and name given since.                *)
(***************************************************************************)
NoOut == [op |-> "none"]

Built(x, arg) ==
    /\ q' = x
    /\ calls' = [arg |-> arg, boost |-> None, name |-> None]
    /\ UNCHANGED <<TermVars, AggVars>>

MatchAll ==
    /\ Built(QueryMatchAll, None)
    /\ out' = NoOut

Term ==
    /\ \E field \in Fields, value \in LeafValues : Built(QueryTerm(field, value), None)
    /\ out' = NoOut

SpanTerm ==
    /\ \E field \in Fields, value \in LeafValues : Built(QuerySpanTerm(field, value), None)
    /\ out' = NoOut

ConstantScore ==
    /\ Depth(q) < MaxDepth
    /\ Built(QueryConstantScore(q), Some(q))
    /\ out' = NoOut

SpanFieldMasking ==
    /\ q.kind \in SpanKinds
    /\ Depth(q) < MaxDepth
    /\ \E field \in Fields : Built(QuerySpanFieldMasking(q, field), Some(q))
    /\ out' = NoOut

Boost ==
    /\ q.kind \in {"match_all", "constant_score"}
    /\ \E boost \in Boosts :
        /\ q' = WithBoost(q, boost)
        /\ calls' = [calls EXCEPT !.boost = Some(boost)]
    /\ out' = NoOut
    /\ UNCHANGED <<TermVars, AggVars>>

Name ==
    /\ q.kind \in {"match_all", "constant_score"}
    /\ \E name \in Names :
        /\ q' = WithName(q, name)
        /\ calls' = [calls EXCEPT !.name = Some(name)]
    /\ out' = NoOut
    /\ UNCHANGED <<TermVars, AggVars>>

\* q.should_skip()
QuerySkip ==
    /\ out' = [op |-> "should_skip", v |-> QueryShouldSkip(q)]
    /\ UNCHANGED <<q, calls, TermVars, AggVars>>

\* serde_json::to_value(&q)
Serialize ==
    /\ out' = [op |-> "serialize", json |-> SerializeQuery(q)]
    /\ UNCHANGED <<q, calls, TermVars, AggVars>>

InitQuery ==
    /\ q = QueryMatchAll
    /\ calls = [arg |-> None, boost |-> None, name |-> None]
    /\ out = NoOut
    /\ TermIdle
    /\ AggIdle

NextQuery ==
    \/ MatchAll
    \/ Term
    \/ SpanTerm
    \/ ConstantScore
    \/ SpanFieldMasking
    \/ Boost
    \/ Name
    \/ QuerySkip
    \/ Serialize

SpecQuery == InitQuery /\ [][NextQuery]_vars

(***************************************************************************)
(* AggregationsHandler over a parsed response (serde_json::Value).  An     *)
(* object Value is a function from its keys to Values.                     *)
(***************************************************************************)
VNull == [t |-> "null"]
VNumber(n) == [t |-> "number", v |-> n]
VString(s) == [t |-> "string", v |-> s]
VArray(a) == [t |-> "array", items |-> a]
VObject(m) == [t |-> "object", map |-> m]

AggNames == {"colors", "sizes", "brands"}

\* what a response may hold under an aggregation name
AggBodies ==
    {VNull, VNumber(1), VObject(<<>>), VObject([k \in {"buckets"} |-> VArray(<<>>)])}

\* the parsed responses: objects over some of the names, and non-objects
Responses ==
    {VObject(m) : m \in UNION {[ks -> AggBodies] : ks \in SUBSET {"colors", "sizes"}}}
        \cup {VNull, VString("error"), VArray(<<>>)}

HasKey(value, key) == value.t = "object" /\ key \in DOMAIN value.map

\* impl Index<&str> for Value: `value[key]`, Value::Null when there is no such entry
ValueIndex(value, key) == IF HasKey(value, key) THEN value.map[key] ELSE VNull

\* AggregationsHandler::new
HandlerNew(value) == value

\* AggregationsHandler::terms
HandlerTerms(handler, aggregation_name) ==
    IF handler = None THEN None ELSE Some(ValueIndex(handler[1], aggregation_name))

New ==
    /\ \E value \in {None} \cup {Some(r) : r \in Responses} :
        aggregations' = HandlerNew(value)
    /\ found' = [op |-> "none"]
    /\ UNCHANGED <<TermVars, QueryVars>>

Terms ==
    /\ \E name \in AggNames :
        found' = [op |-> "terms", name |-> name, before |-> aggregations,
                  result |-> HandlerTerms(aggregations, name)]
    /\ UNCHANGED <<aggregations, TermVars, QueryVars>>

InitAgg ==
    /\ aggregations = HandlerNew(None)
    /\ found = [op |-> "none"]
    /\ TermIdle
    /\ QueryIdle

NextAgg ==
    \/ New
    \/ Terms

SpecAgg == InitAgg /\ [][NextAgg]_vars

(***************************************************************************)
(* What the properties below speak of: the kind of a Value as the          *)
(* documentation counts kinds, and the mathematical integer an integer     *)
(* Value or literal denotes, as a sign and a magnitude (bytes, most        *)
(* significant first, leading zeros dropped).                              *)
(***************************************************************************)
KindOfVariant(k) ==
    CASE k = "Bool" -> "bool"
      [] k = "String" -> "text"
      [] k = "SignedInteger" -> "signed"
      [] k = "UnsignedInteger" -> "unsigned"
      [] k \in {"Float32", "Float64"} -> "float"
      [] OTHER -> "timestamp"

KindOf(t) == IF t = None THEN "absent" ELSE KindOfVariant(t[1].k)

KindOfLiteral(ty) ==
    CASE ty = "bool" -> "bool"
      [] ty \in {"String", "&str"} -> "text"
      [] ty \in {"i8", "i16", "i32", "i64"} -> "signed"
      [] ty \in {"u8", "u16", "u32", "u64"} -> "unsigned"
      [] ty \in {"f32", "f64"} -> "float"
      [] OTHER -> "timestamp"

RECURSIVE Strip(_)
Strip(w) == IF w # <<>> /\ Head(w) = 0 THEN Strip(Tail(w)) ELSE w

RECURSIVE Increment(_, _)
Increment(w, i) ==
    IF i = 0 THEN w
    ELSE IF w[i] = 255 THEN Increment([w EXCEPT ![i] = 0], i - 1)
    ELSE [w EXCEPT ![i] = w[i] + 1]

\* the magnitude of a negative two's complement number of any width
Magnitude(w) == Increment([i \in 1..Len(w) |-> 255 - w[i]], Len(w))

Integer(signed, w) ==
    IF signed /\ w[1] >= 128
    THEN [neg |-> TRUE, mag |-> Strip(Magnitude(w))]
    ELSE [neg |-> FALSE, mag |-> Strip(w)]

\* m1 < m2 for stripped magnitudes
MagLess(m1, m2) ==
    \/ Len(m1) < Len(m2)
    \/ /\ Len(m1) = Len(m2)
       /\ \E i \in 1..Len(m1) :
            /\ m1[i] < m2[i]
            /\ \A j \in 1..(i - 1) : m1[j] = m2[j]

IntegerLess(x, y) ==
    \/ x.neg /\ ~y.neg
    \/ ~x.neg /\ ~y.neg /\ MagLess(x.mag, y.mag)
    \/ x.neg /\ y.neg /\ MagLess(y.mag, x.mag)

\* lexicographic order of texts
TextLess(a, b) ==
    \E i \in 1..(Len(b)) :
        /\ \A j \in 1..(i - 1) : j <= Len(a) /\ a[j] = b[j]
        /\ Len(a) >= i - 1
        /\ (Len(a) = i - 1 \/ a[i] < b[i])

OrderingOf(less, greater) == IF less THEN "Less" ELSE IF greater THEN "Greater" ELSE "Equal"

\* the natural order of two contents of the same non-float variant k
NaturalOrder(k, a, b) ==
    CASE k = "Bool" -> OrderingOf(~a /\ b, a /\ ~b)
      [] k = "String" -> OrderingOf(TextLess(a, b), TextLess(b, a))
      [] k = "SignedInteger" ->
            OrderingOf(IntegerLess(Integer(TRUE, a), Integer(TRUE, b)),
                       IntegerLess(Integer(TRUE, b), Integer(TRUE, a)))
      [] k = "UnsignedInteger" ->
            OrderingOf(IntegerLess(Integer(FALSE, a), Integer(FALSE, b)),
                       IntegerLess(Integer(FALSE, b), Integer(FALSE, a)))
      [] OTHER -> OrderingOf(a < b, b < a)

IntegerOfTerm(t) == Integer(t[1].k = "SignedInteger", t[1].v)

MinusOne == Pad(8, 255)
Sixteen == Pad(7, 0) \o <<16>>

(***************************************************************************)
(* C1.  Value equality is symmetric: whenever both a == b and b == a have  *)
(* been evaluated for two Values of any kinds, the two answers agree, also *)
(* for a negative signed integer against an unsigned one and for an        *)
(* unsigned integer above i64::MAX against a signed one.                   *)
(***************************************************************************)
C1_EqSymmetric == res.op = "eq" => res.lr = res.rl

\* unsigned u64::MAX was compared with signed -1 (same bytes, different numbers)
C1_Witness ==
    /\ res.op = "eq"
    /\ lhs = Some(Inner("UnsignedInteger", MinusOne))
    /\ rhs = Some(Inner("SignedInteger", MinusOne))
    /\ ~res.lr

(***************************************************************************)
(* C2.  Equality of two Values of different kinds: a signed and an         *)
(* unsigned integer are equal iff they denote the same mathematical        *)
(* integer; any other two Values of different kinds (absent counted as a   *)
(* kind, the two float widths as one kind) are unequal.                    *)
(***************************************************************************)
C2_CrossKindEq ==
    (res.op = "eq" /\ KindOf(lhs) # KindOf(rhs)) =>
        res.lr = IF {KindOf(lhs), KindOf(rhs)} = {"signed", "unsigned"}
                 THEN IntegerOfTerm(lhs) = IntegerOfTerm(rhs)
                 ELSE FALSE

\* signed 16 was compared with unsigned 16 and found equal
C2_Witness ==
    /\ res.op = "eq"
    /\ lhs = Some(Inner("SignedInteger", Sixteen))
    /\ rhs = Some(Inner("UnsignedInteger", Sixteen))
    /\ res.lr

(***************************************************************************)
(* C3.  Term::should_skip is true iff the Value is absent or holds an      *)
(* empty text; it is false for every present non-text Value and for every  *)
(* non-empty text.                                                         *)
(***************************************************************************)
C3_ShouldSkip ==
    res.op = "should_skip" =>
        res.lr = (\/ lhs = None
                  \/ lhs[1].k = "String" /\ Len(lhs[1].v) = 0)

\* should_skip was asked of the signed integer zero and answered false
C3_Witness ==
    /\ res.op = "should_skip"
    /\ lhs = Some(Inner("SignedInteger", Pad(8, 0)))
    /\ ~res.lr

(***************************************************************************)
(* C8.  Construction of a Value.  A non-optional literal converts to a     *)
(* present Value of the matching kind holding that literal (an integer     *)
(* literal of any width: the same mathematical integer); an optional       *)
(* literal converts to the absent Value iff it is empty, and Some(x) to    *)
(* what x converts to.                                                     *)
(***************************************************************************)
HoldsLiteral(t, ty, value) ==
    /\ t # None
    /\ KindOf(t) = KindOfLiteral(ty)
    /\ IF KindOfLiteral(ty) \in {"signed", "unsigned"}
       THEN IntegerOfTerm(t) = Integer(KindOfLiteral(ty) = "signed", value)
       ELSE t[1].v = value
    /\ (ty = "f32" => t[1].k = "Float32")
    /\ (ty = "f64" => t[1].k = "Float64")

C8_Conversions ==
    /\ src.how = "from" => HoldsLiteral(lhs, src.ty, src.arg[1])
    /\ src.how = "from_option" =>
        /\ lhs = None <=> src.arg = None
        /\ src.arg # None => lhs = TermFrom(src.ty, src.arg[1])
        /\ src.arg # None => HoldsLiteral(lhs, src.ty, src.arg[1])

\* C8 as stated: moreover the absent Value comes only from an empty optional literal
C8_AbsentOnlyFromEmptyOption ==
    /\ C8_Conversions
    /\ lhs = None => (src.how = "from_option" /\ src.arg = None)

\* C8 amended: the absent Value comes only from an empty optional literal or from
\* Term::default()
C8_AbsentOnlyFromEmptyOptionOrDefault ==
    /\ C8_Conversions
    /\ lhs = None => \/ src.how = "from_option" /\ src.arg = None
                     \/ src.how = "default"

\* an empty Option<u64> was converted, to the absent Value, beside a present signed -1
C8_Witness ==
    /\ src.how = "from_option"
    /\ src.ty = "u64"
    /\ src.arg = None
    /\ lhs = None
    /\ rhs = Some(Inner("SignedInteger", MinusOne))

(***************************************************************************)
(* C9.  Ordering of two present Values of different kinds is Less in both  *)
(* operand orders, by cmp and by partial_cmp alike (a signed and an        *)
(* unsigned integer holding the same number included); two Values of the   *)
(* same non-float kind order by the natural order of their contents.       *)
(***************************************************************************)
C9_Ordering ==
    (res.op \in {"cmp", "partial_cmp"} /\ lhs # None /\ rhs # None) =>
        LET Answer(o) == IF res.op = "cmp" THEN o ELSE Some(o)
        IN  /\ KindOf(lhs) # KindOf(rhs) =>
                res.lr = Answer("Less") /\ res.rl = Answer("Less")
            /\ (KindOf(lhs) = KindOf(rhs) /\ KindOf(lhs) # "float") =>
                /\ res.lr = Answer(NaturalOrder(lhs[1].k, lhs[1].v, rhs[1].v))
                /\ res.rl = Answer(NaturalOrder(lhs[1].k, rhs[1].v, lhs[1].v))

\* signed 16 and unsigned 16 were ordered: each is less than the other
C9_Witness ==
    /\ res.op = "cmp"
    /\ lhs = Some(Inner("SignedInteger", Sixteen))
    /\ rhs = Some(Inner("UnsignedInteger", Sixteen))
    /\ res.lr = "Less"
    /\ res.rl = "Less"

(***************************************************************************)
(* C4.  constant_score(f).should_skip() equals f.should_skip(), for every  *)
(* sub-query f given to the constructor and whatever boost and name calls  *)
(* followed.                                                               *)
(***************************************************************************)
C4_ConstantScoreSkip ==
    (out.op = "should_skip" /\ q.kind = "constant_score") =>
        out.v = QueryShouldSkip(calls.arg[1])

\* a constant_score over a term query with empty text, boosted and named, was asked
C4_Witness ==
    /\ out.op = "should_skip"
    /\ q.kind = "constant_score"
    /\ calls.arg = Some(QueryTerm("test", TermFrom("&str", <<>>)))
    /\ calls.boost # None
    /\ calls.name # None
    /\ out.v

(***************************************************************************)
(* C5.  A serialized match_all, constant_score or span_field_masking node  *)
(* is an object with the single key that names its kind, over an object    *)
(* whose keys are exactly the required fields of the kind, `boost` iff a   *)
(* boost is set and `_name` iff a name is set, each once, none of them     *)
(* null, the set ones holding their values; its sub-query is serialized    *)
(* by the same rule.                                                       *)
(***************************************************************************)
Keys(j) == {j.members[i][1] : i \in 1..Len(j.members)}
Member(j, key) == j.members[CHOOSE i \in 1..Len(j.members) : j.members[i][1] = key][2]

RequiredKeys(kind) ==
    CASE kind = "constant_score" -> {"filter"}
      [] kind = "span_field_masking" -> {"query", "field"}
      [] OTHER -> {}

HasOptionals(kind) == kind \in {"match_all", "constant_score"}

RECURSIVE Shaped(_, _)
Shaped(j, x) ==
    x.kind \in {"match_all", "constant_score", "span_field_masking"} =>
        /\ j.t = "object"
        /\ Len(j.members) = 1
        /\ j.members[1][1] = x.kind
        /\ LET body == j.members[1][2]
               boost == HasOptionals(x.kind) /\ x.boost # None
               name == HasOptionals(x.kind) /\ x._name # None
           IN  /\ body.t = "object"
               /\ Keys(body) = RequiredKeys(x.kind)
                                 \cup (IF boost THEN {"boost"} ELSE {})
                                 \cup (IF name THEN {"_name"} ELSE {})
               /\ Len(body.members) = Cardinality(Keys(body))
               /\ \A i \in 1..Len(body.members) : body.members[i][2].t # "null"
               /\ boost => Member(body, "boost") = JNumber(x.boost[1])
               /\ name => Member(body, "_name") = JString(x._name[1])
               /\ x.kind = "constant_score" => Shaped(Member(body, "filter"), x.filter)
               /\ x.kind = "span_field_masking" =>
                    /\ Shaped(Member(body, "query"), x.query)
                    /\ Member(body, "field") = JString(x.field)

C5_SerializedShape == out.op = "serialize" => Shaped(out.json, q)

\* a constant_score with a name and no boost, over a bare constant_score, was serialized
C5_Witness ==
    /\ out.op = "serialize"
    /\ q.kind = "constant_score"
    /\ q.boost = None
    /\ q._name = Some("test")
    /\ q.filter.kind = "constant_score"
    /\ q.filter.boost = None
    /\ q.filter._name = None

(***************************************************************************)
(* C6.  AggregationsHandler::terms(name) returns the sub-document under    *)
(* name when the response has that key, and None both when the response    *)
(* is absent and when it is present without an entry under name; the       *)
(* handler is left as it was.                                              *)
(***************************************************************************)
C6_TermsLookup ==
    found.op = "terms" =>
        /\ found.result =
             IF aggregations # None /\ HasKey(aggregations[1], found.name)
             THEN Some(aggregations[1].map[found.name])
             ELSE None
        /\ aggregations = found.before

(***************************************************************************)
(* C7.  match_all and constant_score builders: boost and name are absent   *)
(* on a fresh query and afterwards hold the argument of the last boost     *)
(* call and of the last name call; the filter stays the one given to the   *)
(* constructor.                                                            *)
(***************************************************************************)
C7_Builders ==
    q.kind \in {"match_all", "constant_score"} =>
        /\ q.boost = calls.boost
        /\ q._name = calls.name
        /\ q.kind = "constant_score" => Some(q.filter) = calls.arg

\* boost then name were called on a constant_score: both are held, the filter is intact
C7_Witness ==
    /\ q.kind = "constant_score"
    /\ calls.boost = Some(2)
    /\ calls.name = Some("test")
    /\ q.boost = Some(2)
    /\ q._name = Some("test")
    /\ q.filter = QueryTerm("test", TermFrom("i32", <<0, 0, 0, 0>>))

(***************************************************************************)
(* C10.  A query that wraps a sub-query is omittable iff the sub-query is: *)
(* span_field_masking(s, field).should_skip() equals s.should_skip(), as   *)
(* constant_score(f).should_skip() equals f.should_skip().                 *)
(***************************************************************************)
C10_WrapperSkip ==
    (out.op = "should_skip" /\ q.kind \in {"constant_score", "span_field_masking"}) =>
        out.v = QueryShouldSkip(calls.arg[1])

(***************************************************************************)
(* C11.  Equality and ordering of Values agree: for all Values a and b,    *)
(* a.cmp(b) is Equal iff a == b; so for a signed and an unsigned integer   *)
(* holding the same number, and for absent against absent.                 *)
(***************************************************************************)
C11_CmpEqualIffEq == res.op = "eq_cmp" => (res.cmp = "Equal" <=> res.eq)

====
